---- MODULE Spec2Model ----
(***************************************************************************)
(* HDDBench (src/hddtest.py): a campaign of R runs, each run a batch of N  *)
(* concurrent write/read probes (test_file) joined by run_test_run,        *)
(* followed by the fio sweep (run_disk_test) and the final cleanup of      *)
(* main.                                                                   *)
(*                                                                         *)
(* Durations are counted in whole clock ticks; every float the program     *)
(* computes is kept as an exact fraction <<numerator, denominator>> in     *)
(* lowest terms.  A size string is a sequence of one-character strings.    *)
(***************************************************************************)
EXTENDS Integers, Sequences, FiniteSets, TLC

\* ------------------------------------------------------------------ bounds
\* files per run, runs per campaign, and probes per campaign (files * runs)
MaxFiles == 2
MaxRuns == 2
MaxProbes == 4
\* RunStats fed to the campaign accumulation on its own
MaxStats == 3
\* characters of a size string given to parse_size on its own
MaxSizeLen == 4
\* bits of the significand of a float where rounding is modelled (53 in
\* the program's doubles)
Precision == 4

\* -------------------------------------------------------- program constants
KiB == 1024
ArmMinFreeKB == 524288
MinFreeKB == 2097152

\* ------------------------------------------------------------ input domains
\* elapsed time.monotonic() differences a dd child process can show
WriteTimes == {1, 2}
ReadTimes == {1}
\* wall-clock span of a whole batch (at least one write plus one read)
RunDurations == {3, 4}
\* HDDTest.size strings of the configuration
SizeStrs == { <<"1", "M">>, <<"g", "a", "r", "b", "a", "g", "e">> }
\* the characters of the size strings parse_size is tried on
SizeAlphabet ==
    {"0", "2", "4", "6", ".", "k", "G", "T", "B", "-", "x", "\n"}
\* HDDTest.syncmode strings of the configuration, after str().lower()
SyncModeStrs == {"none", "direct", "dsync", "sync", "fsync"}
\* platform.machine().lower()
Archs == {"x86_64", "aarch64", "armv7l"}
\* shutil.disk_usage(...).free // 1024
FreeKBs == {0, ArmMinFreeKB - 1, ArmMinFreeKB, MinFreeKB - 1, MinFreeKB}
\* how a subprocess.run(..., check=True) of dd ends: exit status 0, a
\* non-zero exit status (CalledProcessError), or the child could not be
\* started at all (OSError: FileNotFoundError, PermissionError, EAGAIN)
DdOutcomes == {"ok", "nonzero", "oserror"}

None == <<>>
Some(v) == <<v>>

\* --------------------------------------------------------------- fractions
RECURSIVE GCD(_, _)
GCD(a, b) == IF b = 0 THEN a ELSE GCD(b, a % b)

\* n / d as a float, n >= 0, d > 0
Frac(n, d) == LET g == GCD(n, d) IN <<n \div g, d \div g>>

FracAdd(x, y) == Frac(x[1] * y[2] + y[1] * x[2], x[2] * y[2])

\* x / k for a positive integer k
FracDiv(x, k) == Frac(x[1], x[2] * k)

\* Python's sum() over a list of floats
RECURSIVE sum(_)
sum(s) == IF s = <<>> THEN <<0, 1>> ELSE FracAdd(s[1], sum(Tail(s)))

\* ------------------------------------------------------------ large ints
\* A Python int that can exceed 2^31 is kept as its base-1024 digits, most
\* significant first and without leading zeros (0 is <<>>).
RECURSIVE Limbs(_)
Limbs(n) == IF n = 0 THEN <<>> ELSE Append(Limbs(n \div KiB), n % KiB)

RECURSIVE IntOf(_)
IntOf(b) ==
    IF b = <<>> THEN 0
    ELSE KiB * IntOf(SubSeq(b, 1, Len(b) - 1)) + b[Len(b)]

RECURSIVE Normal(_)
Normal(b) == IF b # <<>> /\ b[1] = 0 THEN Normal(Tail(b)) ELSE b

RECURSIVE MulCarry(_, _, _)
MulCarry(b, k, c) ==
    IF b = <<>> THEN Limbs(c)
    ELSE LET t == b[Len(b)] * k + c
         IN  Append(MulCarry(SubSeq(b, 1, Len(b) - 1), k, t \div KiB),
                    t % KiB)

\* b * k for an integer k >= 0
BigMul(b, k) == Normal(MulCarry(b, k, 0))

RECURSIVE DivStep(_, _)
DivStep(b, d) ==
    IF b = <<>> THEN [q |-> <<>>, r |-> 0]
    ELSE LET p == DivStep(SubSeq(b, 1, Len(b) - 1), d)
             t == p.r * KiB + b[Len(b)]
         IN  [q |-> Append(p.q, t \div d), r |-> t % d]

\* b // d for an integer d > 0
BigDiv(b, d) == Normal(DivStep(b, d).q)

\* ------------------------------------------------------------- parse_size
Digits == {"0", "1", "2", "3", "4", "5", "6", "7", "8", "9"}
UnitLetters == {"K", "k", "M", "m", "G", "g", "T", "t"}

DigitValue(c) ==
    CASE c = "0" -> 0 [] c = "1" -> 1 [] c = "2" -> 2 [] c = "3" -> 3
      [] c = "4" -> 4 [] c = "5" -> 5 [] c = "6" -> 6 [] c = "7" -> 7
      [] c = "8" -> 8 [] c = "9" -> 9

\* unit.upper() looked up in the units dict, default 1
UnitMultiplier(u) ==
    CASE u \in {"K", "k"} -> <<1, 0>>
      [] u \in {"M", "m"} -> <<1, 0, 0>>
      [] u \in {"G", "g"} -> <<1, 0, 0, 0>>
      [] u \in {"T", "t"} -> <<1, 0, 0, 0, 0>>
      [] OTHER -> <<1>>

\* length of the longest run of digits of s starting at position i
RECURSIVE DigitRun(_, _)
DigitRun(s, i) ==
    IF i <= Len(s) /\ s[i] \in Digits THEN 1 + DigitRun(s, i + 1) ELSE 0

RECURSIVE Pow10(_)
Pow10(n) == IF n = 0 THEN 1 ELSE 10 * Pow10(n - 1)

\* the decimal digits s[i..j] read as an integer (0 for an empty range)
RECURSIVE DigitsValue(_, _, _)
DigitsValue(s, i, j) ==
    IF j < i THEN 0 ELSE 10 * DigitsValue(s, i, j - 1) + DigitValue(s[j])

\* re.match(r'^(\d+\.?\d*)([KkMmGgTt]?)[Bb]?$', size_str), then
\* int(float(num) * multiplier); [ok |-> FALSE] stands for the ValueError.
\* '$' matches at the end of the string and before a newline that ends it.
\* The product is exact: float(num) * multiplier truncates to the same int
\* for every size string of up to six characters.
parse_size(size_str) ==
    LET n1 == DigitRun(size_str, 1)
        dot == n1 + 1 <= Len(size_str) /\ size_str[n1 + 1] = "."
        f0 == IF dot THEN n1 + 2 ELSE n1 + 1
        n2 == IF dot THEN DigitRun(size_str, f0) ELSE 0
        u0 == f0 + n2
        hasUnit == u0 <= Len(size_str) /\ size_str[u0] \in UnitLetters
        b0 == IF hasUnit THEN u0 + 1 ELSE u0
        hasB == b0 <= Len(size_str) /\ size_str[b0] \in {"B", "b"}
        end == IF hasB THEN b0 + 1 ELSE b0
        atEnd == \/ end = Len(size_str) + 1
                 \/ end = Len(size_str) /\ size_str[end] = "\n"
        mult == IF hasUnit THEN UnitMultiplier(size_str[u0]) ELSE <<1>>
        scaled == DigitsValue(size_str, 1, n1) * Pow10(n2)
                    + DigitsValue(size_str, f0, f0 + n2 - 1)
    IN  IF n1 >= 1 /\ atEnd
        THEN [ok |-> TRUE,
              value |-> BigDiv(BigMul(mult, scaled), Pow10(n2))]
        ELSE [ok |-> FALSE, value |-> <<>>]

\* ------------------------------------------------------ bytes_to_readable
DigitChar(d) ==
    CASE d = 0 -> "0" [] d = 1 -> "1" [] d = 2 -> "2" [] d = 3 -> "3"
      [] d = 4 -> "4" [] d = 5 -> "5" [] d = 6 -> "6" [] d = 7 -> "7"
      [] d = 8 -> "8" [] d = 9 -> "9"

\* the decimal digits of n >= 0
RECURSIVE DecimalDigits(_)
DecimalDigits(n) ==
    IF n < 10 THEN <<DigitChar(n)>>
    ELSE Append(DecimalDigits(n \div 10), DigitChar(n % 10))

\* the units the loop goes through, then the one after the loop
readable_units ==
    << <<"B">>, <<"K", "B">>, <<"M", "B">>, <<"G", "B">>, <<"T", "B">> >>
readable_last == <<"P", "B">>

\* how many times the loop has divided by 1024 when it returns or ends,
\* having divided k times so far: b / 1024^k < 1024 iff b has at most
\* k + 1 digits
RECURSIVE UnitLoop(_, _)
UnitLoop(b, k) ==
    IF k = Len(readable_units) THEN k
    ELSE IF Len(b) <= k + 1 THEN k
    ELSE UnitLoop(b, k + 1)

\* f"{x:.2f}" for x = b / 1024^k: x rounded to hundredths, ties to even
Format2f(b, k) ==
    LET h == BigMul(b, 100)
        n == Len(h)
        whole == IF n > k THEN IntOf(SubSeq(h, 1, n - k)) ELSE 0
        rest == IF n > k THEN Normal(SubSeq(h, n - k + 1, n)) ELSE h
        half == IF k = 0 THEN <<>>
                ELSE <<KiB \div 2>> \o [i \in 1..(k - 1) |-> 0]
        above == \/ Len(rest) > Len(half)
                 \/ /\ Len(rest) = Len(half)
                    /\ \E i \in 1..Len(rest) :
                          /\ rest[i] > half[i]
                          /\ \A j \in 1..(i - 1) : rest[j] = half[j]
        cents == IF k = 0 THEN whole
                 ELSE IF rest = half THEN whole + (whole % 2)
                 ELSE IF above THEN whole + 1
                 ELSE whole
    IN  DecimalDigits(cents \div 100) \o <<".">>
            \o <<DigitChar((cents % 100) \div 10), DigitChar(cents % 10)>>

\* f"{num_bytes:.2f} {unit}"
bytes_to_readable(num_bytes) ==
    LET k == UnitLoop(num_bytes, 0)
        unit == IF k = Len(readable_units) THEN readable_last
                ELSE readable_units[k + 1]
    IN  Format2f(num_bytes, k) \o <<" ">> \o unit

\* ---------------------------------------------------------------- state
VARIABLES
    files, size_str, runs, keep, fio_test_enabled,            \* configuration
    config_syncmode, \* hdd_config's syncmode as a lowercase string
    syncmode,        \* the local of main, replaced when it is not valid
    bytes_per_file,
    mainpc,          \* position of main / run_test_run / run_disk_test
    run,             \* loop variable of main's for loop
    pc,              \* pc[r][i]: position of probe i of run r
    future,          \* future[i]: the result dict held by future i
    readIssued,      \* indexes of this run whose read dd has been started
    yielded,         \* futures as_completed has handed out so far
    results, total_written_speeds,                 \* locals of run_test_run
    res,                                           \* value run_test_run returned
    run_results, all_run_durations, all_overall_speeds, all_file_speeds,
    total_files_successful, total_data_written, total_error_count,
    overall_stats,
    dirs,            \* directories that exist: "Disk_Test", "base", <<"run", r>>
    rmtreeCalls,     \* arguments of the shutil.rmtree calls made, in order
    fioFile,         \* test.fio: "absent", "present"
    fioEverCreated,  \* test.fio has been laid out by fio at some point
    fioState,        \* how far run_disk_test got
    arch, avail_kb,  \* locals of run_disk_test
    bsIndex, fio_results,
    fioAttempts      \* the run_fio_test_for_bs calls made: <<bs, outcome>>

vars == <<files, size_str, runs, keep, config_syncmode, syncmode,
          fio_test_enabled, bytes_per_file, mainpc, run, pc, future, readIssued, yielded,
          results, total_written_speeds, res, run_results, all_run_durations,
          all_overall_speeds, all_file_speeds, total_files_successful,
          total_data_written, total_error_count, overall_stats, dirs,
          rmtreeCalls, fioFile, fioEverCreated, fioState, arch, avail_kb,
          bsIndex, fio_results, fioAttempts>>

cfgVars == <<files, size_str, runs, keep, fio_test_enabled,
             config_syncmode>>
probeVars == <<pc, future, readIssued>>
runLocals == <<yielded, results, total_written_speeds>>
campaignVars == <<run_results, all_run_durations, all_overall_speeds,
                  all_file_speeds, total_files_successful,
                  total_data_written, total_error_count>>
fsVars == <<dirs, rmtreeCalls, fioFile, fioEverCreated>>
fioVars == <<fioState, arch, avail_kb, bsIndex, fio_results, fioAttempts>>

RunIds == 1..MaxRuns
FileIds == 1..MaxFiles

\* the result dict test_file starts from
NewResult(file_index) ==
    [index |-> file_index, write_time |-> None, read_time |-> None,
     error |-> None]

Init ==
    /\ files \in 1..MaxFiles
    /\ size_str \in SizeStrs
    /\ runs \in 0..MaxRuns
    /\ files * runs <= MaxProbes
    /\ keep \in BOOLEAN
    /\ config_syncmode \in SyncModeStrs
    /\ syncmode = config_syncmode
    /\ fio_test_enabled \in BOOLEAN
    /\ bytes_per_file = <<>>
    /\ mainpc = "config"
    /\ run = 1
    /\ pc = [r \in RunIds |-> [i \in FileIds |-> "idle"]]
    /\ future = [i \in FileIds |-> NewResult(i)]
    /\ readIssued = {}
    /\ yielded = {}
    /\ results = <<>>
    /\ total_written_speeds = <<>>
    /\ res = None
    /\ run_results = <<>>
    /\ all_run_durations = <<>>
    /\ all_overall_speeds = <<>>
    /\ all_file_speeds = <<>>
    /\ total_files_successful = 0
    /\ total_data_written = 0
    /\ total_error_count = 0
    /\ overall_stats = None
    /\ dirs = {}
    /\ rmtreeCalls = <<>>
    /\ fioFile = "absent"
    /\ fioEverCreated = FALSE
    /\ fioState = "not_run"
    /\ arch = None
    /\ avail_kb = None
    /\ bsIndex = 1
    /\ fio_results = <<>>
    /\ fioAttempts = <<>>

\* ------------------------------------------------------------------ main
\* a list of policies that lets fsync through
valid_syncmodes_fsync == {"none", "direct", "dsync", "sync", "fsync"}

valid_syncmodes == {"none", "direct", "dsync", "sync"}

DiskTestDir == <<"Disk_Test">>
BaseTestDir == <<"base">>
RunDir(r) == <<"run", r>>

\* main, from the syncmode check to the initialised accumulators
MainConfig ==
    /\ mainpc = "config"
    /\ syncmode' = IF syncmode \in valid_syncmodes THEN syncmode ELSE "none"
    /\ LET parsed == parse_size(size_str)
       IN  IF parsed.ok
           THEN /\ bytes_per_file' = parsed.value
                /\ dirs' = dirs \cup {DiskTestDir, BaseTestDir}
                /\ mainpc' = "loop"
           ELSE /\ mainpc' = "returned"
                /\ UNCHANGED <<bytes_per_file, dirs>>
    /\ UNCHANGED <<cfgVars, run, probeVars, runLocals, res, campaignVars,
                   overall_stats, rmtreeCalls, fioFile, fioEverCreated,
                   fioVars>>

\* ---------------------------------------------------------- run_test_run
\* entry of run_test_run for the next run of main's loop: the run
\* directory is made and all probes are submitted to the pool at once
StartRun ==
    /\ mainpc = "loop"
    /\ run <= runs
    /\ dirs' = dirs \cup {RunDir(run)}
    /\ pc' = [pc EXCEPT ![run] =
                 [i \in FileIds |-> IF i <= files THEN "write" ELSE "idle"]]
    /\ future' = [i \in FileIds |-> NewResult(i)]
    /\ yielded' = {}
    /\ results' = <<>>
    /\ total_written_speeds' = <<>>
    /\ mainpc' = "as_completed"
    /\ readIssued' = {}
    /\ UNCHANGED <<cfgVars, syncmode, bytes_per_file, run, res,
                   campaignVars, overall_stats, rmtreeCalls, fioFile,
                   fioEverCreated, fioVars>>

\* -------------------------------------------------------------- test_file
\* a read-back under every policy that passes an oflag to dd
ReadBack_oflag(mode) == mode \in {"sync", "dsync", "direct"}

\* the policies whose write is followed by a read-back
ReadBack(mode) == mode \in {"sync", "dsync"}

ErrorWriting(file_index) == Some(<<"Error writing", file_index>>)
ErrorReading(file_index) == Some(<<"Error reading", file_index>>)

\* what the write step leaves: the result dict and the next position
WriteStep(result, outcome, elapsed, mode) ==
    CASE outcome = "nonzero" ->
            [result |-> [result EXCEPT !.error = ErrorWriting(result.index)],
             pc |-> "done"]
      [] outcome = "oserror" ->
            [result |-> result, pc |-> "raised"]
      [] outcome = "ok" ->
            [result |-> [result EXCEPT !.write_time = Some(elapsed)],
             pc |-> IF ReadBack(mode) THEN "read" ELSE "done"]

\* a failed read that hands back a fresh result dict, write time lost
ReadStep_fresh(result, outcome, elapsed) ==
    CASE outcome = "nonzero" ->
            [result |-> [NewResult(result.index) EXCEPT
                           !.error = ErrorReading(result.index)],
             pc |-> "done"]
      [] outcome = "oserror" ->
            [result |-> result, pc |-> "raised"]
      [] outcome = "ok" ->
            [result |-> [result EXCEPT !.read_time = Some(elapsed)],
             pc |-> "done"]

\* what the read step leaves
ReadStep(result, outcome, elapsed) ==
    CASE outcome = "nonzero" ->
            [result |-> [result EXCEPT !.error = ErrorReading(result.index)],
             pc |-> "done"]
      [] outcome = "oserror" ->
            [result |-> result, pc |-> "raised"]
      [] outcome = "ok" ->
            [result |-> [result EXCEPT !.read_time = Some(elapsed)],
             pc |-> "done"]

\* probe i of run r: the dd write of test_file ends
TestFileWrite(r, i) ==
    /\ pc[r][i] = "write"
    /\ \E outcome \in DdOutcomes, elapsed \in WriteTimes :
          LET step == WriteStep(future[i], outcome, elapsed, syncmode)
          IN  /\ future' = [future EXCEPT ![i] = step.result]
              /\ pc' = [pc EXCEPT ![r][i] = step.pc]
    /\ UNCHANGED <<cfgVars, syncmode, bytes_per_file, mainpc, run,
                   readIssued, runLocals, res, campaignVars, overall_stats,
                   fsVars, fioVars>>

\* probe i of run r: the dd read of test_file is started and ends
TestFileRead(r, i) ==
    /\ pc[r][i] = "read"
    /\ readIssued' = readIssued \cup {i}
    /\ \E outcome \in DdOutcomes, elapsed \in ReadTimes :
          LET step == ReadStep(future[i], outcome, elapsed)
          IN  /\ future' = [future EXCEPT ![i] = step.result]
              /\ pc' = [pc EXCEPT ![r][i] = step.pc]
    /\ UNCHANGED <<cfgVars, syncmode, bytes_per_file, mainpc, run,
                   runLocals, res, campaignVars, overall_stats, fsVars,
                   fioVars>>

\* ------------------------------------------------ run_test_run, continued
Finished(r, i) == pc[r][i] \in {"done", "raised"}

\* bytes_per_file / write_time / (1024**2)
write_speed(bpf, write_time) == Frac(bpf, write_time * KiB * KiB)

\* one iteration of the as_completed loop on a future that holds a result
CollectResult(i) ==
    /\ mainpc = "as_completed"
    /\ i \in (1..files) \ yielded
    /\ pc[run][i] = "done"
    /\ yielded' = yielded \cup {i}
    /\ results' = Append(results, future[i])
    /\ total_written_speeds' =
          IF future[i].write_time # None
          THEN Append(total_written_speeds,
                      write_speed(IntOf(bytes_per_file),
                                  future[i].write_time[1]))
          ELSE total_written_speeds
    /\ UNCHANGED <<cfgVars, syncmode, bytes_per_file, mainpc, run, probeVars,
                   res, campaignVars, overall_stats, fsVars, fioVars>>

\* one iteration of the as_completed loop on a future that holds an
\* exception: future.result() raises it again in the main thread
CollectException(i) ==
    /\ mainpc = "as_completed"
    /\ i \in (1..files) \ yielded
    /\ pc[run][i] = "raised"
    /\ yielded' = yielded \cup {i}
    /\ mainpc' = "unwinding"
    /\ UNCHANGED <<cfgVars, syncmode, bytes_per_file, run, probeVars,
                   results, total_written_speeds, res, campaignVars,
                   overall_stats, fsVars, fioVars>>

\* leaving the with block: ThreadPoolExecutor.__exit__ is shutdown(wait=True)
shutdown_wait(r) == \A i \in 1..files : Finished(r, i)

\* as_completed cut short: the loop ends with the first future
as_completed_first == yielded # {}

\* the as_completed loop has handed out every future
as_completed_exhausted == yielded = 1..files

\* no join: run_test_run goes on as soon as one future has been handed out
RunJoined_unjoined(r) == yielded # {}

\* the with block of run_test_run has been left normally
RunJoined(r) == as_completed_exhausted /\ shutdown_wait(r)

\* the exception leaves the with block, run_test_run and main
Unwind ==
    /\ mainpc = "unwinding"
    /\ shutdown_wait(run)
    /\ mainpc' = "crashed"
    /\ UNCHANGED <<cfgVars, syncmode, bytes_per_file, run, probeVars,
                   runLocals, res, campaignVars, overall_stats, fsVars,
                   fioVars>>

\* every collected result counted as a success
files_successful_all(rs) == Len(rs)

files_successful(rs) ==
    Cardinality({k \in 1..Len(rs) : rs[k].write_time # None})

HasError(result) == result.error # None

\* only the errors of the results without a write time
errors_of_writes(rs) ==
    LET NoWriteTime(r) == r.write_time = None /\ HasError(r)
    IN  SelectSeq(rs, NoWriteTime)

\* [res["error"] for res in results if res["error"]]
errors(rs) == SelectSeq(rs, HasError)

\* the sum divided by the number of files of the run
average_written_speed_by_files(speeds) ==
    IF speeds # <<>> THEN FracDiv(sum(speeds), files) ELSE <<0, 1>>

\* sum(speeds) / len(speeds) if speeds else 0
average_written_speed(speeds) ==
    IF speeds # <<>> THEN FracDiv(sum(speeds), Len(speeds)) ELSE <<0, 1>>

\* the dict run_test_run returns
RunStats(run_number, n, bpf, rs, speeds, run_duration) ==
    [run |-> run_number,
     duration |-> Frac(run_duration, 1),
     overall_speed |-> Frac(n * bpf, run_duration * KiB * KiB),
     avg_file_speed |-> average_written_speed(speeds),
     files_successful |-> files_successful(rs),
     data_written_bytes |-> files_successful(rs) * bpf,
     error_count |-> Len(errors(rs))]

\* run_test_run after the with block: the statistics and the return
ReturnRun ==
    /\ mainpc = "as_completed"
    /\ RunJoined(run)
    /\ \E run_duration \in RunDurations :
          res' = Some(RunStats(run, files, IntOf(bytes_per_file), results,
                               total_written_speeds, run_duration))
    /\ mainpc' = "collect"
    /\ UNCHANGED <<cfgVars, syncmode, bytes_per_file, run, probeVars,
                   runLocals, campaignVars, overall_stats, fsVars, fioVars>>

\* ------------------------------------------------------- main, the run loop
RmtreeOutcomes == {"removed", "failed"}

\* main appends the returned dict and adds it to the running totals; the
\* frame of run_test_run (futures, results, speeds) is gone from here on
MainCollect ==
    /\ mainpc = "collect"
    /\ run_results' = Append(run_results, res[1])
    /\ all_run_durations' = Append(all_run_durations, res[1].duration)
    /\ all_overall_speeds' = Append(all_overall_speeds, res[1].overall_speed)
    /\ all_file_speeds' = Append(all_file_speeds, res[1].avg_file_speed)
    /\ total_files_successful' =
          total_files_successful + res[1].files_successful
    /\ total_data_written' = total_data_written + res[1].data_written_bytes
    /\ total_error_count' = total_error_count + res[1].error_count
    /\ future' = [i \in FileIds |-> NewResult(i)]
    /\ readIssued' = {}
    /\ yielded' = {}
    /\ results' = <<>>
    /\ total_written_speeds' = <<>>
    /\ mainpc' = "cleanup"
    /\ UNCHANGED <<cfgVars, syncmode, bytes_per_file, run, pc, res,
                   overall_stats, fsVars, fioVars>>

\* a failed shutil.rmtree(run_dir) ends main with the exception
AfterRunRmtree_uncaught(outcome) ==
    IF outcome = "failed" THEN "crashed" ELSE "loop"

\* try: shutil.rmtree(run_dir) / except Exception: print(...): whatever the
\* outcome, main goes on to the next iteration of the loop
AfterRunRmtree(outcome) == "loop"

\* if not keep: the run directory is removed; then the next iteration
RunCleanup ==
    /\ mainpc = "cleanup"
    /\ IF keep
       THEN /\ mainpc' = "loop"
            /\ UNCHANGED <<dirs, rmtreeCalls>>
       ELSE /\ rmtreeCalls' = Append(rmtreeCalls, RunDir(run))
            /\ \E outcome \in RmtreeOutcomes :
                  /\ dirs' = IF outcome = "removed"
                             THEN dirs \ {RunDir(run)} ELSE dirs
                  /\ mainpc' = AfterRunRmtree(outcome)
    /\ run' = run + 1
    /\ UNCHANGED <<cfgVars, syncmode, bytes_per_file, probeVars, runLocals,
                   res, campaignVars, overall_stats, fioFile, fioEverCreated,
                   fioVars>>

\* the sum, not divided by the number of runs
average_undivided(xs) == sum(xs)

\* sum(xs) / len(xs) if xs else 0
average(xs) == IF xs # <<>> THEN FracDiv(sum(xs), Len(xs)) ELSE <<0, 1>>

\* a loop that can be left before its last iteration
range_exhausted_early(r, n) == TRUE

\* for run in range(1, runs + 1): no value is left for the loop variable
range_exhausted(r, n) == r > n

\* after the loop: the averages and the overall_stats dict
Summary ==
    /\ mainpc = "loop"
    /\ range_exhausted(run, runs)
    /\ overall_stats' =
          Some([avg_duration |-> average(all_run_durations),
                avg_overall_speed |-> average(all_overall_speeds),
                avg_file_speed |-> average(all_file_speeds),
                total_files_successful |-> total_files_successful,
                total_files |-> files * runs,
                total_data_written |->
                    bytes_to_readable(Limbs(total_data_written)),
                total_error_count |-> total_error_count,
                files_per_run |-> files,
                file_size |-> bytes_to_readable(bytes_per_file),
                flag |-> syncmode])
    /\ mainpc' = "disk_test"
    /\ UNCHANGED <<cfgVars, syncmode, bytes_per_file, run, probeVars,
                   runLocals, res, campaignVars, fsVars, fioVars>>

\* ---------------------------------------------------------- run_disk_test
\* "arm" in arch or arch in ["aarch64", "arm"], over the machines of Archs
IsArm(machine) == machine \in {"armv7l", "aarch64", "arm"}

\* the free-space test of run_disk_test
NotEnoughSpace(machine, kb) ==
    (IsArm(machine) /\ kb < ArmMinFreeKB) \/ (kb < MinFreeKB)

block_sizes == <<"4k", "64k", "512k", "1m">>

FioOutcomes == {"ok", "failed"}

\* fio_test: false in the configuration
DiskTestDisabled ==
    /\ mainpc = "disk_test"
    /\ ~fio_test_enabled
    /\ mainpc' = "final"
    /\ UNCHANGED <<cfgVars, syncmode, bytes_per_file, run, probeVars,
                   runLocals, res, campaignVars, overall_stats, fsVars,
                   fioVars>>

\* run_disk_test up to the setup command: fio present, enough free space
DiskTestPreconditions ==
    /\ mainpc = "disk_test"
    /\ fio_test_enabled
    /\ \E installed \in BOOLEAN, machine \in Archs, kb \in FreeKBs :
          IF ~installed
          THEN /\ fioState' = "no_fio"
               /\ mainpc' = "final"
               /\ UNCHANGED <<arch, avail_kb>>
          ELSE /\ arch' = Some(machine)
               /\ avail_kb' = Some(kb)
               /\ IF NotEnoughSpace(machine, kb)
                  THEN fioState' = "no_space" /\ mainpc' = "final"
                  ELSE fioState' = "setup" /\ mainpc' = "fio_setup"
    /\ UNCHANGED <<cfgVars, syncmode, bytes_per_file, run, probeVars,
                   runLocals, res, campaignVars, overall_stats, fsVars,
                   bsIndex, fio_results, fioAttempts>>

\* a failed setup command that is only reported: the sweep starts anyway
AfterSetup_ignored(outcome) == "fio_sweep"

\* try: subprocess.run(setup_cmd, ...) / except Exception: print, return
AfterSetup(outcome) == IF outcome = "ok" THEN "fio_sweep" ELSE "final"

\* the setup command lays out test.fio; any failure or the 15 s timeout
\* ends run_disk_test, whether or not the file was already laid out
FioSetup ==
    /\ mainpc = "fio_setup"
    /\ \E outcome \in FioOutcomes, laid_out \in BOOLEAN :
          /\ outcome = "ok" => laid_out
          /\ fioFile' = IF laid_out THEN "present" ELSE fioFile
          /\ fioEverCreated' = (fioEverCreated \/ laid_out)
          /\ fioState' = IF outcome = "ok" THEN "sweep" ELSE "setup_failed"
          /\ mainpc' = AfterSetup(outcome)
    /\ UNCHANGED <<cfgVars, syncmode, bytes_per_file, run, probeVars,
                   runLocals, res, campaignVars, overall_stats, dirs,
                   rmtreeCalls, arch, avail_kb, bsIndex, fio_results,
                   fioAttempts>>

\* a sweep that stops at the first block size that fails
NextBlockSize_break(index, outcome) ==
    IF outcome = "ok" THEN index + 1 ELSE Len(block_sizes) + 1

\* for bs in block_sizes: whatever run_fio_test_for_bs returned, the loop
\* goes on with the next block size
NextBlockSize(index, outcome) == index + 1

\* one iteration of the block size loop: run_fio_test_for_bs returns a
\* dict, or None after any exception
FioBlockSize ==
    /\ mainpc = "fio_sweep"
    /\ bsIndex <= Len(block_sizes)
    /\ \E outcome \in FioOutcomes :
          /\ fio_results' =
                IF outcome = "ok"
                THEN Append(fio_results, [bs |-> block_sizes[bsIndex]])
                ELSE fio_results
          /\ fioAttempts' =
                Append(fioAttempts, <<block_sizes[bsIndex], outcome>>)
          /\ bsIndex' = NextBlockSize(bsIndex, outcome)
    /\ UNCHANGED <<cfgVars, syncmode, bytes_per_file, mainpc, run, probeVars,
                   runLocals, res, campaignVars, overall_stats, fsVars,
                   fioState, arch, avail_kb>>

\* after the loop the results are printed and run_disk_test returns
FioReport ==
    /\ mainpc = "fio_sweep"
    /\ bsIndex > Len(block_sizes)
    /\ fioState' = "swept"
    /\ mainpc' = "final"
    /\ UNCHANGED <<cfgVars, syncmode, bytes_per_file, run, probeVars,
                   runLocals, res, campaignVars, overall_stats, fsVars,
                   arch, avail_kb, bsIndex, fio_results, fioAttempts>>

\* ------------------------------------------------------ main, final cleanup
\* a failed shutil.rmtree(disk_test_folder) ends main with the exception
AfterFinalRmtree_uncaught(outcome) ==
    IF outcome = "failed" THEN "crashed" ELSE "done"

\* try: shutil.rmtree(disk_test_folder) / except Exception: print(...):
\* whatever the outcome, main ends normally
AfterFinalRmtree(outcome) == "done"

\* if not keep: shutil.rmtree(disk_test_folder), any exception printed
FinalCleanup ==
    /\ mainpc = "final"
    /\ IF keep
       THEN /\ mainpc' = "done"
            /\ UNCHANGED <<dirs, rmtreeCalls, fioFile>>
       ELSE /\ rmtreeCalls' = Append(rmtreeCalls, DiskTestDir)
            /\ \E outcome \in RmtreeOutcomes :
                  /\ IF outcome = "removed"
                     THEN dirs' = {} /\ fioFile' = "absent"
                     ELSE UNCHANGED <<dirs, fioFile>>
                  /\ mainpc' = AfterFinalRmtree(outcome)
    /\ UNCHANGED <<cfgVars, syncmode, bytes_per_file, run, probeVars,
                   runLocals, res, campaignVars, overall_stats,
                   fioEverCreated, fioVars>>

\* ------------------------------------------------------------ specification
Next ==
    \/ MainConfig
    \/ StartRun
    \/ \E r \in RunIds, i \in FileIds : TestFileWrite(r, i)
    \/ \E r \in RunIds, i \in FileIds : TestFileRead(r, i)
    \/ \E i \in FileIds : CollectResult(i)
    \/ \E i \in FileIds : CollectException(i)
    \/ Unwind
    \/ ReturnRun
    \/ MainCollect
    \/ RunCleanup
    \/ Summary
    \/ DiskTestDisabled
    \/ DiskTestPreconditions
    \/ FioSetup
    \/ FioBlockSize
    \/ FioReport
    \/ FinalCleanup

\* the whole program, every configuration
Spec == Init /\ [][Next]_vars

\* the write/read campaign alone: fio_test is false in the configuration
NextCampaign ==
    \/ MainConfig
    \/ StartRun
    \/ \E r \in RunIds, i \in FileIds : TestFileWrite(r, i)
    \/ \E r \in RunIds, i \in FileIds : TestFileRead(r, i)
    \/ \E i \in FileIds : CollectResult(i)
    \/ \E i \in FileIds : CollectException(i)
    \/ Unwind
    \/ ReturnRun
    \/ MainCollect
    \/ RunCleanup
    \/ Summary
    \/ DiskTestDisabled
    \/ FinalCleanup

InitCampaign == Init /\ ~fio_test_enabled

SpecCampaign == InitCampaign /\ [][NextCampaign]_vars

\* the whole program on campaigns of at most one run of one probe
InitSweep == Init /\ files = 1 /\ runs <= 1

SpecSweep == InitSweep /\ [][Next]_vars

TypeOK ==
    /\ mainpc \in {"config", "returned", "loop", "as_completed", "unwinding",
                    "crashed", "collect", "cleanup", "disk_test", "fio_setup",
                    "fio_sweep", "final", "done"}
    /\ run \in 1..(MaxRuns + 1)
    /\ yielded \subseteq FileIds

\* ------------------------------------------- the campaign accumulation
\* The accumulation of main over a list of returned dicts, in floating
\* point: every float operation gives the float nearest to the exact result
\* (ties to the even significand), as the program's doubles do.

\* the integer nearest to n / d, ties to even
RoundHalfEven(n, d) ==
    LET q == n \div d
        r == n % d
    IN  IF 2 * r < d THEN q
        ELSE IF 2 * r > d THEN q + 1
        ELSE IF q % 2 = 0 THEN q ELSE q + 1

\* the float nearest to n / d, n >= 0, d > 0
RECURSIVE float_round(_, _)
float_round(n, d) ==
    IF n = 0 THEN <<0, 1>>
    ELSE IF n >= d * 2^Precision
         THEN LET r == float_round(n, 2 * d) IN Frac(2 * r[1], r[2])
    ELSE IF n < d * 2^(Precision - 1)
         THEN LET r == float_round(2 * n, d) IN Frac(r[1], 2 * r[2])
    ELSE Frac(RoundHalfEven(n, d), 1)

\* x + y and x / k on floats
float_add(x, y) == LET e == FracAdd(x, y) IN float_round(e[1], e[2])
float_div(x, k) == LET e == FracDiv(x, k) IN float_round(e[1], e[2])

\* sum() over a list of floats: left to right, starting from 0
RECURSIVE float_sum(_)
float_sum(xs) ==
    IF xs = <<>> THEN <<0, 1>>
    ELSE float_add(float_sum(SubSeq(xs, 1, Len(xs) - 1)), xs[Len(xs)])

\* sum(xs) / len(xs) if xs else 0
float_average(xs) ==
    IF xs # <<>> THEN float_div(float_sum(xs), Len(xs)) ELSE <<0, 1>>

\* a total that keeps only the last run's count
running_total_last(xs) == IF xs = <<>> THEN 0 ELSE xs[Len(xs)]

\* total = 0, then total += x for each x in turn
RECURSIVE running_total(_)
running_total(xs) ==
    IF xs = <<>> THEN 0
    ELSE running_total(SubSeq(xs, 1, Len(xs) - 1)) + xs[Len(xs)]

\* what main's loop and the lines after it compute from the returned
\* dicts, fed in the order of rr
CampaignStats(rr) ==
    LET n == Len(rr)
    IN  [avg_duration |-> float_average([k \in 1..n |-> rr[k].duration]),
         avg_overall_speed |->
             float_average([k \in 1..n |-> rr[k].overall_speed]),
         avg_file_speed |->
             float_average([k \in 1..n |-> rr[k].avg_file_speed]),
         total_files_successful |->
             running_total([k \in 1..n |-> rr[k].files_successful]),
         total_data_written |->
             running_total([k \in 1..n |-> rr[k].data_written_bytes]),
         total_error_count |->
             running_total([k \in 1..n |-> rr[k].error_count])]

\* the dicts a run of one probe of 1 MiB can return without a read-back:
\* the write took 1 or 2 ticks or failed, the batch 2 or 32 ticks
FedWrites == {"failed", "1", "2"}
FedDurations == {2, 32}

FedResult(w) ==
    CASE w = "failed" -> [NewResult(1) EXCEPT !.error = ErrorWriting(1)]
      [] w = "1" -> [NewResult(1) EXCEPT !.write_time = Some(1)]
      [] w = "2" -> [NewResult(1) EXCEPT !.write_time = Some(2)]

FedSpeeds(w) ==
    CASE w = "failed" -> <<>>
      [] w = "1" -> <<write_speed(KiB * KiB, 1)>>
      [] w = "2" -> <<write_speed(KiB * KiB, 2)>>

FedStats(run_number, w, d) ==
    RunStats(run_number, 1, KiB * KiB, <<FedResult(w)>>, FedSpeeds(w), d)

FedLists ==
    UNION { { [k \in 1..n |-> FedStats(k, f[k][1], f[k][2])] :
                f \in [1..n -> FedWrites \X FedDurations] } :
            n \in 0..MaxStats }

\* main past its configuration with nothing run yet, about to accumulate
\* a given list of returned dicts
InitAggregate ==
    /\ files = 1
    /\ size_str = <<"1", "M">>
    /\ runs \in 0..MaxStats
    /\ keep = TRUE
    /\ config_syncmode = "none"
    /\ syncmode = "none"
    /\ fio_test_enabled = FALSE
    /\ bytes_per_file = Limbs(KiB * KiB)
    /\ mainpc = "aggregate"
    /\ run = 1
    /\ pc = [r \in RunIds |-> [i \in FileIds |-> "idle"]]
    /\ future = [i \in FileIds |-> NewResult(i)]
    /\ readIssued = {}
    /\ yielded = {}
    /\ results = <<>>
    /\ total_written_speeds = <<>>
    /\ res = None
    /\ run_results \in FedLists
    /\ Len(run_results) = runs
    /\ all_run_durations = <<>>
    /\ all_overall_speeds = <<>>
    /\ all_file_speeds = <<>>
    /\ total_files_successful = 0
    /\ total_data_written = 0
    /\ total_error_count = 0
    /\ overall_stats = None
    /\ dirs = {DiskTestDir, BaseTestDir}
    /\ rmtreeCalls = <<>>
    /\ fioFile = "absent"
    /\ fioEverCreated = FALSE
    /\ fioState = "not_run"
    /\ arch = None
    /\ avail_kb = None
    /\ bsIndex = 1
    /\ fio_results = <<>>
    /\ fioAttempts = <<>>

\* the accumulation applied to the list
Aggregate ==
    /\ mainpc = "aggregate"
    /\ overall_stats' = Some(CampaignStats(run_results))
    /\ mainpc' = "aggregated"
    /\ UNCHANGED <<cfgVars, syncmode, bytes_per_file, run, probeVars,
                   runLocals, res, campaignVars, fsVars, fioVars>>

NextAggregate == Aggregate

SpecAggregate == InitAggregate /\ [][NextAggregate]_vars

\* ------------------------------------------------- the size conversions
\* main on a campaign of no runs without the sweep, for every size string
\* over SizeAlphabet: parse_size is applied to the string and
\* bytes_to_readable to the byte count it returns.
SizeTexts == UNION { [1..n -> SizeAlphabet] : n \in 0..MaxSizeLen }

InitSize ==
    /\ files = 1
    /\ size_str \in SizeTexts
    /\ runs = 0
    /\ keep \in BOOLEAN
    /\ config_syncmode = "none"
    /\ syncmode = "none"
    /\ fio_test_enabled = FALSE
    /\ bytes_per_file = <<>>
    /\ mainpc = "config"
    /\ run = 1
    /\ pc = [r \in RunIds |-> [i \in FileIds |-> "idle"]]
    /\ future = [i \in FileIds |-> NewResult(i)]
    /\ readIssued = {}
    /\ yielded = {}
    /\ results = <<>>
    /\ total_written_speeds = <<>>
    /\ res = None
    /\ run_results = <<>>
    /\ all_run_durations = <<>>
    /\ all_overall_speeds = <<>>
    /\ all_file_speeds = <<>>
    /\ total_files_successful = 0
    /\ total_data_written = 0
    /\ total_error_count = 0
    /\ overall_stats = None
    /\ dirs = {}
    /\ rmtreeCalls = <<>>
    /\ fioFile = "absent"
    /\ fioEverCreated = FALSE
    /\ fioState = "not_run"
    /\ arch = None
    /\ avail_kb = None
    /\ bsIndex = 1
    /\ fio_results = <<>>
    /\ fioAttempts = <<>>

NextSize ==
    \/ MainConfig
    \/ Summary
    \/ DiskTestDisabled
    \/ FinalCleanup

SpecSize == InitSize /\ [][NextSize]_vars

\* ================================================================ claims
InRun == mainpc \in {"as_completed", "unwinding", "crashed", "collect"}

\* the probes of the current run, read off the futures themselves
WriteFailed == {i \in 1..files : future[i].write_time = None}
WriteOk == {i \in 1..files : future[i].write_time # None}
ReadFailed == {i \in 1..files : future[i].error = ErrorReading(i)}

\* the probes of run r that have been dispatched and have not ended
InFlight(r) == {i \in FileIds : pc[r][i] \in {"write", "read"}}
Dispatched(r) == \E i \in FileIds : pc[r][i] # "idle"

\* C1: when run_test_run has returned its statistics, every probe of the
\* run has finished and results holds exactly one result per index 1..N,
\* whatever the order of completion.
C1_JoinBarrier ==
    mainpc = "collect" =>
        /\ \A i \in 1..files : Finished(run, i)
        /\ Len(results) = files
        /\ \A i \in 1..files :
              Cardinality({k \in 1..Len(results) : results[k].index = i}) = 1

\* a run of two probes has returned, the second probe collected first
C1_Witness ==
    /\ mainpc = "collect"
    /\ files = 2
    /\ results[1].index = 2

\* C2: a failure of dd in a probe, a failure to start dd included, never
\* becomes an exception that leaves the run.
C2_NoExceptionLeavesRun == mainpc # "crashed"

\* C3: in a run where k probes failed at the write and no read failed, the
\* returned statistics count N-k successes, (N-k) x bytes_per_file bytes
\* and k errors.
C3_RunCounts ==
    (mainpc = "collect" /\ ReadFailed = {}) =>
        /\ res[1].files_successful = files - Cardinality(WriteFailed)
        /\ res[1].data_written_bytes =
              (files - Cardinality(WriteFailed)) * IntOf(bytes_per_file)
        /\ res[1].error_count = Cardinality(WriteFailed)

\* a run of two probes has returned, one failed at the write, no read failed
C3_Witness ==
    /\ mainpc = "collect"
    /\ files = 2
    /\ Cardinality(WriteFailed) = 1
    /\ ReadFailed = {}

\* the sum of bytes_per_file / write_time / 1024**2 over the probes of S
RECURSIVE SpeedSum(_)
SpeedSum(S) ==
    IF S = {} THEN <<0, 1>>
    ELSE LET i == CHOOSE x \in S : TRUE
         IN  FracAdd(Frac(IntOf(bytes_per_file),
                          future[i].write_time[1] * KiB * KiB),
                     SpeedSum(S \ {i}))

\* C4: avg_file_speed times the number of probes whose write succeeded is
\* the sum of their speeds; it is 0 when no write succeeded.
C4_PerFileAverage ==
    mainpc = "collect" =>
        LET avg == res[1].avg_file_speed
            total == SpeedSum(WriteOk)
        IN  IF WriteOk = {}
            THEN avg = <<0, 1>>
            ELSE avg[1] * Cardinality(WriteOk) * total[2] = total[1] * avg[2]

\* a run of two probes has returned, one write failed, one succeeded
C4_Witness ==
    /\ mainpc = "collect"
    /\ files = 2
    /\ Cardinality(WriteFailed) = 1
    /\ res[1].avg_file_speed # <<0, 1>>

\* C5: a probe whose read failed keeps its write time, has no read time
\* and has an error; in the returned statistics it counts as a success, in
\* the bytes written and as an error.
C5_ReadFailure ==
    /\ InRun =>
          \A i \in ReadFailed :
             future[i].write_time # None /\ future[i].read_time = None
    /\ mainpc = "collect" =>
          /\ res[1].files_successful = files - Cardinality(WriteFailed)
          /\ res[1].data_written_bytes =
                (files - Cardinality(WriteFailed)) * IntOf(bytes_per_file)
          /\ res[1].error_count =
                Cardinality(WriteFailed) + Cardinality(ReadFailed)

\* a run has returned in which a read failed
C5_Witness ==
    /\ mainpc = "collect"
    /\ ReadFailed # {}
    /\ res[1].files_successful = files

\* C6: a probe's read is issued only after its write has succeeded and only
\* under sync or dsync, and under those policies every probe that ends with
\* a result after a successful write has issued it; a probe whose write
\* failed ends without write time, without read time, with an error and
\* without a read; under none and direct no read is issued at all.
C6_StepOrder ==
    InRun =>
        /\ \A i \in readIssued :
              future[i].write_time # None /\ syncmode \in {"sync", "dsync"}
        /\ \A i \in 1..files :
              pc[run][i] = "done" =>
                 /\ i \in readIssued <=>
                       (future[i].write_time # None
                          /\ syncmode \in {"sync", "dsync"})
                 /\ future[i].write_time = None =>
                       future[i].read_time = None /\ future[i].error # None
        /\ syncmode \in {"none", "direct"} =>
              /\ readIssued = {}
              /\ \A i \in 1..files : future[i].read_time = None

\* in one run a probe has issued its read and another has ended after a
\* failed write
C6_Witness ==
    /\ mainpc = "as_completed"
    /\ \E i, j \in 1..files :
          /\ i \in readIssued
          /\ pc[run][j] = "done"
          /\ future[j].write_time = None

\* C7: probes in flight all belong to one run, and a probe of run r+1 is
\* dispatched only when every probe of run r has finished and the
\* statistics of run r have been collected.
C7_RunsSequential ==
    /\ \A r1, r2 \in RunIds :
          (InFlight(r1) # {} /\ InFlight(r2) # {}) => r1 = r2
    /\ \A r \in RunIds :
          (r + 1 \in RunIds /\ Dispatched(r + 1)) =>
             /\ \A i \in 1..files : pc[r][i] = "done"
             /\ Len(run_results) >= r

\* the two probes of a second run are in flight
C7_Witness ==
    /\ files = 2
    /\ Dispatched(2)
    /\ InFlight(2) = {1, 2}

InRmtreeCalls(d) == \E k \in 1..Len(rmtreeCalls) : rmtreeCalls[k] = d

\* C8: once fio has laid out test.fio, the file is gone when main ends, or
\* its removal has been attempted, whatever the keep flag.
C8_ProbeFileRemoved ==
    (mainpc = "done" /\ fioEverCreated) =>
        (fioFile = "absent" \/ InRmtreeCalls(DiskTestDir))

\* the free space run_disk_test is meant to require on a machine
Threshold(machine) == IF IsArm(machine) THEN ArmMinFreeKB ELSE MinFreeKB

\* C9: with fio present, the sweep is skipped for lack of space exactly
\* when the free space is below the threshold of the architecture, and a
\* skipped sweep has no results.
C9_FreeSpaceThreshold ==
    arch # None =>
        /\ fioState = "no_space" <=> avail_kb[1] < Threshold(arch[1])
        /\ fioState = "no_space" => fio_results = <<>>

IsRunDir(d) == d[1] = "run"

\* the state part of C10
C10_State ==
    LET calls == SelectSeq(rmtreeCalls, IsRunDir)
    IN  /\ keep =>
              /\ rmtreeCalls = <<>>
              /\ \A r \in RunIds : Dispatched(r) => RunDir(r) \in dirs
        /\ ~keep =>
              /\ Len(calls) <= Len(run_results)
              /\ \A k \in 1..Len(calls) : calls[k] = RunDir(k)
              /\ \A r \in RunIds : Dispatched(r) => Len(calls) >= r - 1
              /\ mainpc \in {"disk_test", "final", "done"} =>
                    Len(calls) = runs

\* the step part of C10: the cleanup step
C10_Step ==
    mainpc = "cleanup" =>
        /\ campaignVars' = campaignVars
        /\ mainpc' = "loop"
        /\ run' = run + 1

\* C10: without keep, the removal of each run's directory is attempted,
\* once, after the run's statistics are collected and before the next run
\* is dispatched; the cleanup step changes no statistic and always leads
\* to the next iteration, also when the removal fails; with keep no
\* removal is attempted and every run directory stays.
C10_RunDirCleanup == []C10_State /\ [][C10_Step]_vars

\* the removal of the first run's directory failed and a second run has
\* been dispatched
C10_Witness ==
    /\ ~keep
    /\ InRmtreeCalls(RunDir(1))
    /\ RunDir(1) \in dirs
    /\ Dispatched(2)

AttemptOk(attempt) == attempt[2] = "ok"

\* C11: the sweep calls run_fio_test_for_bs for 4k, 64k, 512k, 1m in that
\* order, each once, whatever the earlier calls returned; the results are
\* the block sizes whose call succeeded, in sweep order.
C11_SweepContinues ==
    LET succeeded == SelectSeq(fioAttempts, AttemptOk)
    IN  /\ Len(fioAttempts) <= Len(block_sizes)
        /\ \A k \in 1..Len(fioAttempts) : fioAttempts[k][1] = block_sizes[k]
        /\ fioState = "swept" => Len(fioAttempts) = Len(block_sizes)
        /\ Len(fio_results) = Len(succeeded)
        /\ \A k \in 1..Len(succeeded) : fio_results[k].bs = succeeded[k][1]

\* a finished sweep whose second block size failed and whose others
\* succeeded
C11_Witness ==
    /\ fioState = "swept"
    /\ fioAttempts[2][2] = "failed"
    /\ Len(fio_results) = 3
    /\ fio_results[2].bs = "512k"

\* C12: after a failed setup command no block size test is started, there
\* are no results, and main is at or past its final cleanup.
C12_SetupFailureAborts ==
    fioState = "setup_failed" =>
        /\ fioAttempts = <<>>
        /\ fio_results = <<>>
        /\ mainpc \in {"final", "done"}

\* main has ended after a failed setup command
C12_Witness ==
    /\ fioState = "setup_failed"
    /\ mainpc = "done"

\* the sum of the integers of a sequence, and of the fractions of a sequence
RECURSIVE IntTotal(_)
IntTotal(s) ==
    IF s = <<>> THEN 0 ELSE IntTotal(SubSeq(s, 1, Len(s) - 1)) + s[Len(s)]

RECURSIVE FracTotal(_)
FracTotal(s) ==
    IF s = <<>> THEN <<0, 1>>
    ELSE FracAdd(FracTotal(SubSeq(s, 1, Len(s) - 1)), s[Len(s)])

\* x is the arithmetic mean of the fractions of s (0 for an empty s)
IsMeanOf(x, s) ==
    IF s = <<>> THEN x = <<0, 1>>
    ELSE LET t == FracTotal(s) IN x[1] * Len(s) * t[2] = t[1] * x[2]

\* the state part of C13
C13_State ==
    LET n == Len(run_results)
        successes == [k \in 1..n |-> run_results[k].files_successful]
        bytes == [k \in 1..n |-> run_results[k].data_written_bytes]
        errs == [k \in 1..n |-> run_results[k].error_count]
        durations == [k \in 1..n |-> run_results[k].duration]
        overall == [k \in 1..n |-> run_results[k].overall_speed]
        perFile == [k \in 1..n |-> run_results[k].avg_file_speed]
    IN  /\ total_files_successful = IntTotal(successes)
        /\ total_data_written = IntTotal(bytes)
        /\ total_error_count = IntTotal(errs)
        /\ total_files_successful <= files * runs
        /\ overall_stats # None =>
              /\ n = runs
              /\ overall_stats[1].total_files = files * runs
              /\ overall_stats[1].total_files_successful = IntTotal(successes)
              /\ overall_stats[1].total_error_count = IntTotal(errs)
              /\ IsMeanOf(overall_stats[1].avg_duration, durations)
              /\ IsMeanOf(overall_stats[1].avg_overall_speed, overall)
              /\ IsMeanOf(overall_stats[1].avg_file_speed, perFile)
              /\ runs = 0 =>
                    /\ overall_stats[1].avg_duration = <<0, 1>>
                    /\ overall_stats[1].avg_overall_speed = <<0, 1>>
                    /\ overall_stats[1].avg_file_speed = <<0, 1>>
                    /\ overall_stats[1].total_files_successful = 0
                    /\ overall_stats[1].total_error_count = 0
                    /\ overall_stats[1].total_files = 0
                    /\ total_data_written = 0

\* the step part of C13: the running totals never decrease
C13_Step ==
    /\ total_files_successful' >= total_files_successful
    /\ total_data_written' >= total_data_written
    /\ total_error_count' >= total_error_count
    /\ Len(run_results') >= Len(run_results)

\* C13: the running totals are the sums of the collected statistics and
\* never decrease; after the R runs the totals of overall_stats are those
\* sums, the three averages are the arithmetic means over the R runs,
\* total_files is files x R and bounds the successes; with R = 0 every
\* aggregate is zero.
C13_CampaignAggregates == []C13_State /\ [][C13_Step]_vars

\* a summary over two runs that differ in per-file speed, with an error
C13_Witness ==
    /\ overall_stats # None
    /\ runs = 2
    /\ run_results[1].avg_file_speed # run_results[2].avg_file_speed
    /\ total_error_count > 0

\* rr fed in the order p
Reordered(rr, p) == [k \in 1..Len(rr) |-> rr[p[k]]]

\* |x - y| <= 4 * n * 2^-Precision * max(x, y): what n float operations
\* with relative error 2^-Precision each can make two results differ by
WithinRounding(x, y, n) ==
    LET hi == IF x[1] * y[2] >= y[1] * x[2] THEN x ELSE y
        lo == IF x[1] * y[2] >= y[1] * x[2] THEN y ELSE x
    IN  (hi[1] * lo[2] - lo[1] * hi[2]) * hi[2] * 2^Precision
            <= 4 * n * hi[1] * hi[2] * lo[2]

RECURSIVE AddCarry(_, _, _)
AddCarry(x, y, c) ==
    IF x = <<>> /\ y = <<>> THEN Limbs(c)
    ELSE LET a == IF x = <<>> THEN 0 ELSE x[Len(x)]
             b == IF y = <<>> THEN 0 ELSE y[Len(y)]
             t == a + b + c
         IN  Append(AddCarry(SubSeq(x, 1, Len(x) - 1),
                             SubSeq(y, 1, Len(y) - 1), t \div KiB),
                    t % KiB)

BigAdd(x, y) == Normal(AddCarry(x, y, 0))

BigLeq(x, y) ==
    \/ Len(x) < Len(y)
    \/ x = y
    \/ /\ Len(x) = Len(y)
       /\ \E i \in 1..Len(x) :
             /\ x[i] < y[i]
             /\ \A j \in 1..(i - 1) : x[j] = y[j]

\* ---- the grammar <number>[unit][B]
IsDigit(c) == c \in Digits

\* <number>: decimal digits, optionally a point and more digits
IsNumber(t) ==
    /\ t # <<>>
    /\ t[1] \in Digits
    /\ \A i \in 1..Len(t) : t[i] \in Digits \cup {"."}
    /\ Cardinality({i \in 1..Len(t) : t[i] = "."}) <= 1

\* [unit][B]
IsUnitSuffix(t) ==
    \/ t = <<>>
    \/ Len(t) = 1 /\ t[1] \in UnitLetters \cup {"B", "b"}
    \/ Len(t) = 2 /\ t[1] \in UnitLetters /\ t[2] \in {"B", "b"}

\* s is a number of n characters followed by [unit][B]
SplitsAt(s, n) ==
    /\ IsNumber(SubSeq(s, 1, n))
    /\ IsUnitSuffix(SubSeq(s, n + 1, Len(s)))

InGrammar(s) == \E n \in 1..Len(s) : SplitsAt(s, n)

\* the number t is NumberDigits(t) / NumberScale(t)
NumberDigits(t) ==
    LET d == SelectSeq(t, IsDigit) IN DigitsValue(d, 1, Len(d))

NumberScale(t) ==
    Pow10(Cardinality({i \in 1..Len(t) :
                         \E j \in 1..(i - 1) : t[j] = "."}))

\* K = 1024, M = 1024^2, G = 1024^3, T = 1024^4, no unit = 1
StatedMultiplier(t) ==
    IF t = <<>> THEN Limbs(1)
    ELSE CASE t[1] \in {"K", "k"} -> Limbs(KiB)
           [] t[1] \in {"M", "m"} -> Limbs(KiB * KiB)
           [] t[1] \in {"G", "g"} -> Limbs(KiB * KiB * KiB)
           [] t[1] \in {"T", "t"} -> BigMul(Limbs(KiB * KiB * KiB), KiB)
           [] OTHER -> Limbs(1)

\* v is number x multiplier truncated toward zero:
\* v * scale <= digits * multiplier < (v + 1) * scale
IsTruncatedProduct(v, s) ==
    \A n \in 1..Len(s) :
       SplitsAt(s, n) =>
          LET number == SubSeq(s, 1, n)
              product == BigMul(StatedMultiplier(SubSeq(s, n + 1, Len(s))),
                                NumberDigits(number))
          IN  /\ BigLeq(BigMul(v, NumberScale(number)), product)
              /\ ~BigLeq(BigMul(BigAdd(v, Limbs(1)), NumberScale(number)),
                         product)

\* C15: once main has called parse_size on the size string: a string of
\* the grammar <number>[unit][B] gave number x multiplier truncated toward
\* zero (64k gave 65536, 2G gave 2147483648), and any other string raised
\* the error and gave no byte count.
C15_ParseSize ==
    mainpc # "config" =>
        IF InGrammar(size_str)
        THEN /\ mainpc # "returned"
             /\ IsTruncatedProduct(bytes_per_file, size_str)
             /\ size_str = <<"6", "4", "k">>
                    => bytes_per_file = Limbs(65536)
             /\ size_str = <<"2", "G">> => bytes_per_file = <<2, 0, 0, 0>>
        ELSE /\ mainpc = "returned"
             /\ bytes_per_file = <<>>

\* 1024^k, the unit bytes_to_readable writes b in
ReadableUnit(b) == <<1>> \o [i \in 1..UnitLoop(b, 0) |-> 0]

\* C16: once main has formatted the byte count of the size string with
\* bytes_to_readable: parse_size of the formatted text succeeds and gives
\* the byte count back within a hundredth of the unit it was written in.
C16_RoundTrip ==
    overall_stats # None =>
        LET reparsed == parse_size(overall_stats[1].file_size)
            there == BigMul(bytes_per_file, 100)
            back == BigMul(reparsed.value, 100)
            tolerance == ReadableUnit(bytes_per_file)
        IN  /\ reparsed.ok
            /\ BigLeq(back, BigAdd(there, tolerance))
            /\ BigLeq(there, BigAdd(back, tolerance))

\* C17: once main is past its configuration checks: if the size string is
\* invalid, main has returned and no directory was made, no probe
\* dispatched, no run counted, the sweep not started and nothing removed; if
\* the configured sync policy is not one of none, direct, dsync, sync, the
\* campaign runs under none, without read-backs, is not halted, and its
\* aggregates are computed over all R runs.
C17_ConfigurationErrors ==
    mainpc # "config" =>
        /\ ~parse_size(size_str).ok =>
              /\ mainpc = "returned"
              /\ dirs = {}
              /\ \A r \in RunIds, i \in FileIds : pc[r][i] = "idle"
              /\ run_results = <<>> /\ overall_stats = None
              /\ fioState = "not_run" /\ fioAttempts = <<>>
              /\ fioFile = "absent" /\ rmtreeCalls = <<>>
        /\ config_syncmode \notin {"none", "direct", "dsync", "sync"} =>
              /\ syncmode = "none"
              /\ readIssued = {}
              /\ parse_size(size_str).ok => mainpc # "returned"
              /\ overall_stats # None => Len(run_results) = runs

\* a campaign configured with an unknown sync policy has made its run and
\* computed its aggregates
C17_Witness ==
    /\ config_syncmode = "fsync"
    /\ runs = 1
    /\ overall_stats # None
    /\ run_results[1].files_successful = 1

\* C18: in every result a probe has returned, no write time means an error
\* and no read time, and a read time means a write time and no error; in
\* the statistics a run returns, files_successful <= N, error_count <= N and
\* files_successful + error_count = N + the number of probes whose read
\* failed, which is N under the policies none and direct.
C18_ResultInvariants ==
    /\ \A k \in 1..Len(results) :
          /\ results[k].write_time = None =>
                results[k].error # None /\ results[k].read_time = None
          /\ results[k].read_time # None =>
                results[k].write_time # None /\ results[k].error = None
    /\ mainpc = "collect" =>
          /\ res[1].files_successful <= files
          /\ res[1].error_count <= files
          /\ res[1].files_successful + res[1].error_count
                = files + Cardinality(ReadFailed)
          /\ syncmode \in {"none", "direct"} =>
                res[1].files_successful + res[1].error_count = files

\* a run of two probes has returned: one write failed, one read failed
C18_Witness ==
    /\ mainpc = "collect"
    /\ files = 2
    /\ Cardinality(WriteFailed) = 1
    /\ Cardinality(ReadFailed) = 1
    /\ res[1].files_successful + res[1].error_count = 3

\* run_disk_test has been entered
SweepEntered ==
    fioState # "not_run" \/ mainpc \in {"fio_setup", "fio_sweep"}

\* C19: whenever run_disk_test has been entered, fio_test is enabled, every
\* run of the campaign has been made with all its probes finished and its
\* directory removal attempted (when keep is not set), and the campaign
\* aggregates are computed; when fio_test is disabled, run_disk_test is
\* never entered and nothing of the sweep happens.
C19_SweepAfterCampaign ==
    /\ SweepEntered =>
          /\ fio_test_enabled
          /\ run = runs + 1
          /\ Len(run_results) = runs
          /\ overall_stats # None
          /\ \A r \in RunIds, i \in FileIds :
                pc[r][i] = IF r <= runs /\ i <= files THEN "done" ELSE "idle"
          /\ ~keep => \A r \in 1..runs : InRmtreeCalls(RunDir(r))
    /\ ~fio_test_enabled =>
          /\ ~SweepEntered
          /\ arch = None /\ avail_kb = None
          /\ fioAttempts = <<>> /\ fio_results = <<>>
          /\ ~fioEverCreated

\* the setup step of the sweep is about to run after a campaign of one run
\* whose directory removal was attempted
C19_Witness ==
    /\ mainpc = "fio_setup"
    /\ runs = 1
    /\ ~keep
    /\ rmtreeCalls = <<RunDir(1)>>

\* the shutil.rmtree calls made on the Disk_Test folder
FinalRmtrees == {k \in 1..Len(rmtreeCalls) : rmtreeCalls[k] = DiskTestDir}

\* run_disk_test has returned, or was not called because fio_test is off
SweepOver ==
    IF fio_test_enabled
    THEN fioState \in {"no_fio", "no_space", "setup_failed", "swept"}
    ELSE fioState = "not_run"

C20_State ==
    /\ Cardinality(FinalRmtrees) <= 1
    /\ FinalRmtrees # {} =>
          /\ ~keep
          /\ FinalRmtrees = {Len(rmtreeCalls)}
          /\ SweepOver
          /\ mainpc = "done"
    /\ (mainpc = "done" /\ ~keep) => Cardinality(FinalRmtrees) = 1
    /\ keep => rmtreeCalls = <<>>

C20_Step ==
    /\ keep => /\ dirs \subseteq dirs'
               /\ fioFile = "present" => fioFile' = "present"
    /\ Len(rmtreeCalls') > Len(rmtreeCalls)
          /\ rmtreeCalls'[Len(rmtreeCalls')] = DiskTestDir
          => /\ mainpc = "final" /\ SweepOver /\ mainpc' = "done"
             /\ \/ dirs' = {} /\ fioFile' = "absent"
                \/ dirs' = dirs /\ fioFile' = fioFile

\* C20: when keep is not set, shutil.rmtree of the Disk_Test folder is
\* called at most once, only after run_disk_test has returned or been
\* skipped, exactly once by the time main ends, and main ends normally
\* whether or not the removal succeeded; when keep is set, main calls no
\* rmtree at all and no directory or probe file ever disappears.
C20_FinalCleanup == []C20_State /\ [][C20_Step]_vars

\* main has ended after a completed sweep and a failed removal of the
\* Disk_Test folder, which is still there with the sweep's probe file
C20_Witness ==
    /\ mainpc = "done"
    /\ ~keep
    /\ fioState = "swept"
    /\ rmtreeCalls = <<RunDir(1), DiskTestDir>>
    /\ DiskTestDir \in dirs
    /\ fioFile = "present"

====
